---- MODULE Spec2Model ----
(***************************************************************************)
(* Model of the two thread pools of poolCompose:                           *)
(*   DynamicThreadPool  (src/thread_pool/threadpool_resize/main.cc)        *)
(*   SimpleThreadPool   (src/thread_pool/simple_threadpool/threadPool.h)   *)
(*                                                                         *)
(* Granularity.  Every block that runs under mtx_ is one step: all the     *)
(* data it touches (tasks_, and is_stop_ which is only written under       *)
(* mtx_) is protected by the mutex, and a condition-variable wait          *)
(* releases the mutex and blocks atomically.  Everything done outside the  *)
(* mutex (the unlocked reads of is_stop_ in the loop heads, the accesses   *)
(* to active_threads_, thread creation, notify, join, running a task) is   *)
(* a step of its own.                                                      *)
(*                                                                         *)
(* Condition variables.  A thread blocked in a wait is unblocked by        *)
(* notify_one (one waiter, any of them), by notify_all, or spuriously; it  *)
(* then re-takes mtx_ and re-tests the predicate.  A temporary thread is   *)
(* also unblocked by the deadline of wait_for.                             *)
(*                                                                         *)
(* shutdown() is private and only the destructor calls it; it is modelled  *)
(* as an operation on a pool object that stays allocated, so that Submit   *)
(* and the detached threads can still be observed after it has returned.   *)
(* The release of the members by the destructor is not modelled.           *)
(***************************************************************************)
EXTENDS Integers, Sequences, FiniteSets

\* ---- bounds ----
MaxCore == 2        \* core_threads / core_size range over 0..MaxCore
MaxThreads == 2     \* max_threads ranges over 0..MaxThreads
MaxSubmits == 2     \* total number of Submit calls
NumSubmitters == 1  \* number of client threads calling Submit
MaxShutdowns == 2   \* number of shutdown() calls

Submitters == 1..NumSubmitters
TaskIds == 1..MaxSubmits

VARIABLES
  pool,            \* which class is instantiated: "dynamic" or "simple"
  core_threads_,   \* constructor argument core_threads (core_size)
  max_threads_,    \* constructor argument max_threads
  ctor,            \* position of the constructor
  is_stop_,        \* std::atomic<bool> is_stop_
  active_threads_, \* std::atomic<size_t> active_threads_, as an unbounded integer:
                   \* a fetch_sub below 0 (a wrap-around in size_t) shows as -1
  tasks_,          \* std::queue tasks_, as the sequence of task ids
  threads_,        \* std::vector<std::thread> threads_ and each thread's position
  temps,           \* the detached temporary threads and each one's position
  sub,             \* each client thread's position inside Submit
  thrown,          \* number of Submit calls that threw the pool-stopped runtime_error
  accepted,        \* number of tasks emplaced so far (task ids are 1..accepted)
  executed,        \* per task id, how many times the packaged_task was invoked
  fut,             \* per task id, the shared state behind the std::future Submit returned
  sd,              \* position of the thread running shutdown()
  sdCalls,         \* number of shutdown() calls made
  lateSubmit       \* history: some Submit of the elastic pool overlapped or followed a shutdown() call

vars == <<pool, core_threads_, max_threads_, ctor, is_stop_, active_threads_,
          tasks_, threads_, temps, sub, thrown, accepted, executed, fut, sd, sdCalls,
          lateSubmit>>

\* ---- std::queue ----
\* faulty variant of emplace: the task is put at the head
emplace_front(q, t) == <<t>> \o q
\* tasks_.emplace: the task is put at the back
emplace(q, t) == Append(q, t)
\* tasks_.front()
front(q) == Head(q)
\* faulty variant of pop: the head is left in the queue
pop_nothing(q) == q
\* tasks_.pop()
pop(q) == Tail(q)

\* ---- task bodies and std::packaged_task ----
\* the callables handed to Submit: the bodies of tasks 1, 3, ... throw an
\* exception, the bodies of tasks 2, 4, ... return a value
Throws(t) == t % 2 = 1

\* packaged_task::operator(): the body runs; what it returns or throws is
\* stored in the shared state, and nothing is thrown to the caller
packaged_task(t) == IF Throws(t) THEN "exception" ELSE "value"

\* ---- std::thread objects ----
\* pc is the thread's position, task the task it holds, late the number of
\* tasks it has dequeued in its loop while is_stop_ was already true (history)
NewThread(p) == [pc |-> p, task |-> 0, joinable |-> TRUE, late |-> 0]

\* the thread leaves its loop at the loop head: its loop history ends
Leave(t, p) == [t EXCEPT !.pc = p, !.late = 0]

\* one more dequeue after the stop flag, if the stop flag is set
Late(n) == IF is_stop_ THEN n + 1 ELSE n

\* the predicate of both cv waits: !tasks_.empty() || is_stop_
WaitPred == tasks_ # <<>> \/ is_stop_

\* threads blocked in cv_task_.wait / wait_for / cv_.wait
Waiters == {<<"core", i>> : i \in {j \in DOMAIN threads_ : threads_[j].pc = "wait"}}
           \cup {<<"temp", i>> : i \in {j \in DOMAIN temps : temps[j].pc = "wait"}}

\* a blocked thread is unblocked: it goes on to re-acquire mtx_ and re-test the predicate
Wake(w) ==
  IF w[1] = "core"
    THEN /\ threads_' = [threads_ EXCEPT ![w[2]].pc = "acquire"]
         /\ UNCHANGED temps
    ELSE /\ temps' = [temps EXCEPT ![w[2]].pc = "acquire"]
         /\ UNCHANGED threads_

notify_one ==
  IF Waiters = {} THEN UNCHANGED <<threads_, temps>>
  ELSE \E w \in Waiters : Wake(w)

WakeAll(ts) == [i \in DOMAIN ts |->
                  IF ts[i].pc = "wait" THEN [ts[i] EXCEPT !.pc = "acquire"] ELSE ts[i]]

notify_all ==
  /\ threads_' = WakeAll(threads_)
  /\ temps' = WakeAll(temps)

\* faulty variant of Init: active_threads_ starts at 0
Init_active_zero ==
  /\ pool \in {"dynamic", "simple"}
  /\ core_threads_ \in 0..MaxCore
  /\ max_threads_ \in (IF pool = "dynamic" THEN 0..MaxThreads ELSE {0})
  /\ ctor = "body"
  /\ is_stop_ = FALSE
  /\ active_threads_ = 0
  /\ tasks_ = <<>>
  /\ threads_ = <<>>
  /\ temps = <<>>
  /\ sub = [s \in Submitters |-> "idle"]
  /\ thrown = 0
  /\ accepted = 0
  /\ executed = [t \in TaskIds |-> 0]
  /\ fut = [t \in TaskIds |-> "pending"]
  /\ sd = [pc |-> "idle", i |-> 1]
  /\ sdCalls = 0
  /\ lateSubmit = FALSE

\* The state when the member initialisers have run and the constructor body starts.
Init ==
  /\ pool \in {"dynamic", "simple"}
  /\ core_threads_ \in 0..MaxCore
  /\ max_threads_ \in (IF pool = "dynamic" THEN 0..MaxThreads ELSE {0})
  /\ ctor = "body"
  /\ is_stop_ = FALSE
  /\ active_threads_ = (IF pool = "dynamic" THEN core_threads_ ELSE 0)
  /\ tasks_ = <<>>
  /\ threads_ = <<>>
  /\ temps = <<>>
  /\ sub = [s \in Submitters |-> "idle"]
  /\ thrown = 0
  /\ accepted = 0
  /\ executed = [t \in TaskIds |-> 0]
  /\ fut = [t \in TaskIds |-> "pending"]
  /\ sd = [pc |-> "idle", i |-> 1]
  /\ sdCalls = 0
  /\ lateSubmit = FALSE

\* ======================= DynamicThreadPool =======================

\* faulty variant of DynamicThreadPool_check: the arguments are not compared
DynamicThreadPool_nocheck ==
  /\ pool = "dynamic" /\ ctor = "body"
  /\ ctor' = "loop"
  /\ UNCHANGED <<pool, core_threads_, max_threads_, is_stop_, active_threads_,
                 tasks_, threads_, temps, sub, thrown, accepted, executed, fut, sd,
                 sdCalls, lateSubmit>>

\* constructor body: the argument check (lines 21-23)
DynamicThreadPool_check ==
  /\ pool = "dynamic" /\ ctor = "body"
  /\ ctor' = IF core_threads_ > max_threads_ THEN "threw" ELSE "loop"
  /\ UNCHANGED <<pool, core_threads_, max_threads_, is_stop_, active_threads_,
                 tasks_, threads_, temps, sub, thrown, accepted, executed, fut, sd,
                 sdCalls, lateSubmit>>

\* constructor body: one test of the loop that starts the core threads
\* (lines 25-27); the constructor returns when the test fails
DynamicThreadPool_loop ==
  /\ pool = "dynamic" /\ ctor = "loop"
  /\ IF Len(threads_) < core_threads_
       THEN /\ threads_' = Append(threads_, NewThread("top"))
            /\ UNCHANGED ctor
       ELSE /\ ctor' = "returned"
            /\ UNCHANGED threads_
  /\ UNCHANGED <<pool, core_threads_, max_threads_, is_stop_, active_threads_,
                 tasks_, temps, sub, thrown, accepted, executed, fut, sd, sdCalls,
                 lateSubmit>>

\* faulty variant of Submit_lock: is_stop_ is not tested
Submit_lock_nocheck(s) ==
  /\ pool = "dynamic" /\ ctor = "returned"
  /\ sub[s] = "idle" /\ accepted + thrown < MaxSubmits
  /\ lateSubmit' = (lateSubmit \/ sd.pc # "idle" \/ sdCalls > 0)
  /\ tasks_' = emplace(tasks_, accepted + 1)
  /\ accepted' = accepted + 1
  /\ sub' = [sub EXCEPT ![s] = "check"]
  /\ UNCHANGED thrown
  /\ UNCHANGED <<pool, core_threads_, max_threads_, ctor, is_stop_,
                 active_threads_, threads_, temps, executed, fut, sd, sdCalls>>

\* Submit, the block under mtx_ (lines 47-51)
Submit_lock(s) ==
  /\ pool = "dynamic" /\ ctor = "returned"
  /\ sub[s] = "idle" /\ accepted + thrown < MaxSubmits
  /\ lateSubmit' = (lateSubmit \/ sd.pc # "idle" \/ sdCalls > 0)
  /\ IF is_stop_
       THEN /\ thrown' = thrown + 1
            /\ UNCHANGED <<tasks_, accepted, sub>>
       ELSE /\ tasks_' = emplace(tasks_, accepted + 1)
            /\ accepted' = accepted + 1
            /\ sub' = [sub EXCEPT ![s] = "check"]
            /\ UNCHANGED thrown
  /\ UNCHANGED <<pool, core_threads_, max_threads_, ctor, is_stop_,
                 active_threads_, threads_, temps, executed, fut, sd, sdCalls>>

\* start_temp_thread: a detached thread that will run temp_worker_loop
start_temp_thread == temps' = Append(temps, NewThread("start"))

\* Submit, the growth test (lines 54-56)
Submit_grow(s) ==
  /\ pool = "dynamic" /\ sub[s] = "check"
  /\ IF active_threads_ < max_threads_
       THEN start_temp_thread
       ELSE UNCHANGED temps
  /\ sub' = [sub EXCEPT ![s] = "notify"]
  /\ UNCHANGED <<pool, core_threads_, max_threads_, ctor, is_stop_,
                 active_threads_, tasks_, threads_, thrown, accepted, executed, fut,
                 sd, sdCalls, lateSubmit>>

\* faulty variant of Submit_notify: Submit returns without notify_one
Submit_notify_missing(s) ==
  /\ pool = "dynamic" /\ sub[s] = "notify"
  /\ sub' = [sub EXCEPT ![s] = "idle"]
  /\ UNCHANGED <<pool, core_threads_, max_threads_, ctor, is_stop_,
                 active_threads_, tasks_, thrown, accepted, executed, fut, sd,
                 sdCalls, lateSubmit, threads_, temps>>

\* Submit, cv_task_.notify_one() and return (lines 58-59)
Submit_notify(s) ==
  /\ pool = "dynamic" /\ sub[s] = "notify"
  /\ notify_one
  /\ sub' = [sub EXCEPT ![s] = "idle"]
  /\ UNCHANGED <<pool, core_threads_, max_threads_, ctor, is_stop_,
                 active_threads_, tasks_, thrown, accepted, executed, fut, sd,
                 sdCalls, lateSubmit>>

\* faulty variant of core_worker_top: a loop head while (true)
core_worker_top_forever(i) ==
  /\ pool = "dynamic" /\ i \in DOMAIN threads_ /\ threads_[i].pc = "top"
  /\ threads_' = [threads_ EXCEPT ![i].pc = "acquire"]
  /\ UNCHANGED <<pool, core_threads_, max_threads_, ctor, is_stop_,
                 active_threads_, tasks_, temps, sub, thrown, accepted, executed, fut,
                 sd, sdCalls, lateSubmit>>

\* core_worker_loop: the loop head while (!is_stop_)
core_worker_top(i) ==
  /\ pool = "dynamic" /\ i \in DOMAIN threads_ /\ threads_[i].pc = "top"
  /\ threads_' = IF is_stop_ THEN [threads_ EXCEPT ![i] = Leave(@, "done")]
                             ELSE [threads_ EXCEPT ![i].pc = "acquire"]
  /\ UNCHANGED <<pool, core_threads_, max_threads_, ctor, is_stop_,
                 active_threads_, tasks_, temps, sub, thrown, accepted, executed, fut,
                 sd, sdCalls, lateSubmit>>

\* core_worker_loop: the block under mtx_ (lines 70-77), entered when the
\* thread first takes the lock and again each time it is unblocked
core_worker_locked(i) ==
  /\ pool = "dynamic" /\ i \in DOMAIN threads_ /\ threads_[i].pc = "acquire"
  /\ IF ~WaitPred
       THEN /\ threads_' = [threads_ EXCEPT ![i].pc = "wait"]
            /\ UNCHANGED tasks_
       ELSE IF is_stop_ /\ tasks_ = <<>>
         THEN /\ threads_' = [threads_ EXCEPT ![i].pc = "done"]
              /\ UNCHANGED tasks_
         ELSE /\ threads_' = [threads_ EXCEPT ![i].pc = "run",
                                               ![i].task = front(tasks_),
                                               ![i].late = Late(@)]
              /\ tasks_' = pop(tasks_)
  /\ UNCHANGED <<pool, core_threads_, max_threads_, ctor, is_stop_,
                 active_threads_, temps, sub, thrown, accepted, executed, fut, sd,
                 sdCalls, lateSubmit>>

\* faulty variant of core_worker_run: the queued callable is the bare body,
\* not a packaged_task, so an exception leaves core_worker_loop and ends the
\* thread with the future never set
core_worker_run_bare(i) ==
  /\ pool = "dynamic" /\ i \in DOMAIN threads_ /\ threads_[i].pc = "run"
  /\ executed' = [executed EXCEPT ![threads_[i].task] = @ + 1]
  /\ IF Throws(threads_[i].task)
       THEN /\ threads_' = [threads_ EXCEPT ![i].pc = "done", ![i].task = 0]
            /\ UNCHANGED fut
       ELSE /\ threads_' = [threads_ EXCEPT ![i].pc = "top", ![i].task = 0]
            /\ fut' = [fut EXCEPT ![threads_[i].task] = "value"]
  /\ UNCHANGED <<pool, core_threads_, max_threads_, ctor, is_stop_,
                 active_threads_, tasks_, temps, sub, thrown, accepted, sd,
                 sdCalls, lateSubmit>>

\* core_worker_loop: task() (line 78)
core_worker_run(i) ==
  /\ pool = "dynamic" /\ i \in DOMAIN threads_ /\ threads_[i].pc = "run"
  /\ executed' = [executed EXCEPT ![threads_[i].task] = @ + 1]
  /\ fut' = [fut EXCEPT ![threads_[i].task] = packaged_task(threads_[i].task)]
  /\ threads_' = [threads_ EXCEPT ![i].pc = "top", ![i].task = 0]
  /\ UNCHANGED <<pool, core_threads_, max_threads_, ctor, is_stop_,
                 active_threads_, tasks_, temps, sub, thrown, accepted, sd,
                 sdCalls, lateSubmit>>

\* faulty variant of temp_worker_enter: the fetch_add is missing
temp_worker_enter_noadd(i) ==
  /\ pool = "dynamic" /\ i \in DOMAIN temps /\ temps[i].pc = "start"
  /\ temps' = [temps EXCEPT ![i].pc = "top"]
  /\ UNCHANGED <<pool, core_threads_, max_threads_, ctor, is_stop_, tasks_,
                 threads_, sub, thrown, accepted, executed, fut, sd, sdCalls,
                 lateSubmit, active_threads_>>

\* temp_worker_loop: active_threads_.fetch_add(1) (line 84)
temp_worker_enter(i) ==
  /\ pool = "dynamic" /\ i \in DOMAIN temps /\ temps[i].pc = "start"
  /\ active_threads_' = active_threads_ + 1
  /\ temps' = [temps EXCEPT ![i].pc = "top"]
  /\ UNCHANGED <<pool, core_threads_, max_threads_, ctor, is_stop_, tasks_,
                 threads_, sub, thrown, accepted, executed, fut, sd, sdCalls,
                 lateSubmit>>

\* temp_worker_loop: the loop head while (!is_stop_)
temp_worker_top(i) ==
  /\ pool = "dynamic" /\ i \in DOMAIN temps /\ temps[i].pc = "top"
  /\ temps' = IF is_stop_ THEN [temps EXCEPT ![i] = Leave(@, "exiting")]
                          ELSE [temps EXCEPT ![i].pc = "acquire"]
  /\ UNCHANGED <<pool, core_threads_, max_threads_, ctor, is_stop_,
                 active_threads_, tasks_, threads_, sub, thrown, accepted,
                 executed, fut, sd, sdCalls, lateSubmit>>

\* what a temporary thread does under mtx_ once wait_for returned true (lines 95-98)
temp_take(i) ==
  IF is_stop_ /\ tasks_ = <<>>
    THEN /\ temps' = [temps EXCEPT ![i].pc = "exiting"]
         /\ UNCHANGED tasks_
    ELSE /\ temps' = [temps EXCEPT ![i].pc = "run", ![i].task = front(tasks_),
                                    ![i].late = Late(@)]
         /\ tasks_' = pop(tasks_)

\* temp_worker_loop: the block under mtx_ (lines 87-99), entered when the
\* thread first takes the lock and again each time it is unblocked in time
temp_worker_locked(i) ==
  /\ pool = "dynamic" /\ i \in DOMAIN temps /\ temps[i].pc = "acquire"
  /\ IF ~WaitPred
       THEN /\ temps' = [temps EXCEPT ![i].pc = "wait"]
            /\ UNCHANGED tasks_
       ELSE temp_take(i)
  /\ UNCHANGED <<pool, core_threads_, max_threads_, ctor, is_stop_,
                 active_threads_, threads_, sub, thrown, accepted, executed, fut, sd,
                 sdCalls, lateSubmit>>

\* faulty variant of temp_worker_timeout: on a timeout the thread goes round
\* the loop again instead of leaving it
temp_worker_timeout_continue(i) ==
  /\ pool = "dynamic" /\ i \in DOMAIN temps /\ temps[i].pc = "wait"
  /\ IF ~WaitPred
       THEN /\ temps' = [temps EXCEPT ![i].pc = "top"]
            /\ UNCHANGED tasks_
       ELSE temp_take(i)
  /\ UNCHANGED <<pool, core_threads_, max_threads_, ctor, is_stop_,
                 active_threads_, threads_, sub, thrown, accepted, executed, fut, sd,
                 sdCalls, lateSubmit>>

\* faulty variant of temp_worker_timeout: a wait_for without the predicate,
\* so that a timeout always leaves the loop
temp_worker_timeout_break(i) ==
  /\ pool = "dynamic" /\ i \in DOMAIN temps /\ temps[i].pc = "wait"
  /\ temps' = [temps EXCEPT ![i].pc = "exiting"]
  /\ UNCHANGED <<pool, core_threads_, max_threads_, ctor, is_stop_,
                 active_threads_, threads_, sub, thrown, accepted, executed, fut, sd,
                 sdCalls, lateSubmit, tasks_>>

\* temp_worker_loop: the one second of wait_for elapses; wait_for re-takes
\* mtx_ and returns the predicate's value, false meaning break (lines 90-94)
temp_worker_timeout(i) ==
  /\ pool = "dynamic" /\ i \in DOMAIN temps /\ temps[i].pc = "wait"
  /\ IF ~WaitPred
       THEN /\ temps' = [temps EXCEPT ![i].pc = "exiting"]
            /\ UNCHANGED tasks_
       ELSE temp_take(i)
  /\ UNCHANGED <<pool, core_threads_, max_threads_, ctor, is_stop_,
                 active_threads_, threads_, sub, thrown, accepted, executed, fut, sd,
                 sdCalls, lateSubmit>>

\* temp_worker_loop: task() (line 100)
temp_worker_run(i) ==
  /\ pool = "dynamic" /\ i \in DOMAIN temps /\ temps[i].pc = "run"
  /\ executed' = [executed EXCEPT ![temps[i].task] = @ + 1]
  /\ fut' = [fut EXCEPT ![temps[i].task] = packaged_task(temps[i].task)]
  /\ temps' = [temps EXCEPT ![i].pc = "top", ![i].task = 0]
  /\ UNCHANGED <<pool, core_threads_, max_threads_, ctor, is_stop_,
                 active_threads_, tasks_, threads_, sub, thrown, accepted, sd,
                 sdCalls, lateSubmit>>

\* temp_worker_loop: active_threads_.fetch_sub(1) and the thread ends (line 102)
temp_worker_exit(i) ==
  /\ pool = "dynamic" /\ i \in DOMAIN temps /\ temps[i].pc = "exiting"
  /\ active_threads_' = active_threads_ - 1
  /\ temps' = [temps EXCEPT ![i].pc = "done"]
  /\ UNCHANGED <<pool, core_threads_, max_threads_, ctor, is_stop_, tasks_,
                 threads_, sub, thrown, accepted, executed, fut, sd, sdCalls,
                 lateSubmit>>

\* a condition-variable wait may return without a notification; the
\* predicate is then re-tested under mtx_
spurious_wakeup ==
  /\ \E w \in Waiters : Wake(w)
  /\ UNCHANGED <<pool, core_threads_, max_threads_, ctor, is_stop_,
                 active_threads_, tasks_, sub, thrown, accepted, executed, fut, sd,
                 sdCalls, lateSubmit>>

\* shutdown: is_stop_ = true under mtx_ (lines 113-116)
shutdown_set ==
  /\ pool = "dynamic" /\ ctor = "returned"
  /\ sd.pc \in {"idle", "returned"} /\ sdCalls < MaxShutdowns
  /\ sdCalls' = sdCalls + 1
  /\ is_stop_' = TRUE
  /\ sd' = [pc |-> "notify", i |-> 1]
  /\ lateSubmit' = (lateSubmit \/ \E s \in Submitters : sub[s] # "idle")
  /\ UNCHANGED <<pool, core_threads_, max_threads_, ctor, active_threads_,
                 tasks_, threads_, temps, sub, thrown, accepted, executed, fut>>

\* faulty variant of shutdown_notify: notify_one instead of notify_all
shutdown_notify_one ==
  /\ pool = "dynamic" /\ sd.pc = "notify"
  /\ notify_one
  /\ sd' = [sd EXCEPT !.pc = "join"]
  /\ UNCHANGED <<pool, core_threads_, max_threads_, ctor, is_stop_,
                 active_threads_, tasks_, sub, thrown, accepted, executed, fut,
                 sdCalls, lateSubmit>>

\* shutdown: cv_task_.notify_all() (line 117)
shutdown_notify ==
  /\ pool = "dynamic" /\ sd.pc = "notify"
  /\ notify_all
  /\ sd' = [sd EXCEPT !.pc = "join"]
  /\ UNCHANGED <<pool, core_threads_, max_threads_, ctor, is_stop_,
                 active_threads_, tasks_, sub, thrown, accepted, executed, fut,
                 sdCalls, lateSubmit>>

\* faulty variant of shutdown_join: joinable() is not tested, and join() on
\* a thread that was already joined throws std::system_error
shutdown_join_unguarded ==
  /\ pool = "dynamic" /\ sd.pc = "join" /\ sd.i <= Len(threads_)
  /\ IF threads_[sd.i].joinable
       THEN /\ threads_[sd.i].pc = "done"
            /\ threads_' = [threads_ EXCEPT ![sd.i].joinable = FALSE]
            /\ sd' = [sd EXCEPT !.i = @ + 1]
       ELSE /\ sd' = [sd EXCEPT !.pc = "threw"]
            /\ UNCHANGED threads_
  /\ UNCHANGED <<pool, core_threads_, max_threads_, ctor, is_stop_,
                 active_threads_, tasks_, temps, sub, thrown, accepted, executed, fut,
                 sdCalls, lateSubmit>>

\* shutdown: one iteration of the join loop (lines 119-121); join blocks
\* until the thread has ended
shutdown_join ==
  /\ pool = "dynamic" /\ sd.pc = "join" /\ sd.i <= Len(threads_)
  /\ IF threads_[sd.i].joinable
       THEN /\ threads_[sd.i].pc = "done"
            /\ threads_' = [threads_ EXCEPT ![sd.i].joinable = FALSE]
       ELSE UNCHANGED threads_
  /\ sd' = [sd EXCEPT !.i = @ + 1]
  /\ UNCHANGED <<pool, core_threads_, max_threads_, ctor, is_stop_,
                 active_threads_, tasks_, temps, sub, thrown, accepted, executed, fut,
                 sdCalls, lateSubmit>>

\* shutdown: the join loop is over and shutdown returns
shutdown_return ==
  /\ pool = "dynamic" /\ sd.pc = "join" /\ sd.i > Len(threads_)
  /\ sd' = [sd EXCEPT !.pc = "returned"]
  /\ UNCHANGED <<pool, core_threads_, max_threads_, ctor, is_stop_,
                 active_threads_, tasks_, threads_, temps, sub, thrown, accepted,
                 executed, fut, sdCalls, lateSubmit>>

\* ======================= SimpleThreadPool =======================

\* constructor: one test of the loop that starts the workers (lines 16-18)
SimpleThreadPool_loop ==
  /\ pool = "simple" /\ ctor = "body"
  /\ IF Len(threads_) < core_threads_
       THEN /\ threads_' = Append(threads_, NewThread("acquire"))
            /\ UNCHANGED ctor
       ELSE /\ ctor' = "returned"
            /\ UNCHANGED threads_
  /\ UNCHANGED <<pool, core_threads_, max_threads_, is_stop_, active_threads_,
                 tasks_, temps, sub, thrown, accepted, executed, fut, sd, sdCalls,
                 lateSubmit>>

\* Submit, the block under mtx_ (lines 37-45)
Simple_Submit_lock(s) ==
  /\ pool = "simple" /\ ctor = "returned"
  /\ sub[s] = "idle" /\ accepted + thrown < MaxSubmits
  /\ IF is_stop_
       THEN /\ thrown' = thrown + 1
            /\ UNCHANGED <<tasks_, accepted, sub>>
       ELSE /\ tasks_' = emplace(tasks_, accepted + 1)
            /\ accepted' = accepted + 1
            /\ sub' = [sub EXCEPT ![s] = "notify"]
            /\ UNCHANGED thrown
  /\ UNCHANGED <<pool, core_threads_, max_threads_, ctor, is_stop_,
                 active_threads_, threads_, temps, executed, fut, sd, sdCalls,
                 lateSubmit>>

\* Submit, cv_.notify_one() and return (lines 47-49)
Simple_Submit_notify(s) ==
  /\ pool = "simple" /\ sub[s] = "notify"
  /\ notify_one
  /\ sub' = [sub EXCEPT ![s] = "idle"]
  /\ UNCHANGED <<pool, core_threads_, max_threads_, ctor, is_stop_,
                 active_threads_, tasks_, thrown, accepted, executed, fut, sd,
                 sdCalls, lateSubmit>>

\* work: the block under mtx_ (lines 57-70), entered when the thread first
\* takes the lock and again each time it is unblocked
work_locked(i) ==
  /\ pool = "simple" /\ i \in DOMAIN threads_ /\ threads_[i].pc = "acquire"
  /\ IF ~WaitPred
       THEN /\ threads_' = [threads_ EXCEPT ![i].pc = "wait"]
            /\ UNCHANGED tasks_
       ELSE IF is_stop_ /\ tasks_ = <<>>
         THEN /\ threads_' = [threads_ EXCEPT ![i].pc = "done"]
              /\ UNCHANGED tasks_
         ELSE /\ threads_' = [threads_ EXCEPT ![i].pc = "run",
                                               ![i].task = front(tasks_)]
              /\ tasks_' = pop(tasks_)
  /\ UNCHANGED <<pool, core_threads_, max_threads_, ctor, is_stop_,
                 active_threads_, temps, sub, thrown, accepted, executed, fut, sd,
                 sdCalls, lateSubmit>>

\* work: task() inside try/catch (lines 73-78), then the next iteration
work_run(i) ==
  /\ pool = "simple" /\ i \in DOMAIN threads_ /\ threads_[i].pc = "run"
  /\ executed' = [executed EXCEPT ![threads_[i].task] = @ + 1]
  /\ fut' = [fut EXCEPT ![threads_[i].task] = packaged_task(threads_[i].task)]
  /\ threads_' = [threads_ EXCEPT ![i].pc = "acquire", ![i].task = 0]
  /\ UNCHANGED <<pool, core_threads_, max_threads_, ctor, is_stop_,
                 active_threads_, tasks_, temps, sub, thrown, accepted, sd,
                 sdCalls, lateSubmit>>

\* shutdown: the unlocked test if (is_stop_) return (lines 85-87)
Simple_shutdown_test ==
  /\ pool = "simple" /\ ctor = "returned"
  /\ sd.pc \in {"idle", "returned"} /\ sdCalls < MaxShutdowns
  /\ sdCalls' = sdCalls + 1
  /\ sd' = [pc |-> IF is_stop_ THEN "returned" ELSE "set", i |-> 1]
  /\ UNCHANGED <<pool, core_threads_, max_threads_, ctor, is_stop_,
                 active_threads_, tasks_, threads_, temps, sub, thrown, accepted,
                 executed, fut, lateSubmit>>

\* shutdown: is_stop_ = true under mtx_ (lines 89-92)
Simple_shutdown_set ==
  /\ pool = "simple" /\ sd.pc = "set"
  /\ is_stop_' = TRUE
  /\ sd' = [sd EXCEPT !.pc = "notify"]
  /\ UNCHANGED <<pool, core_threads_, max_threads_, ctor, active_threads_,
                 tasks_, threads_, temps, sub, thrown, accepted, executed, fut,
                 sdCalls, lateSubmit>>

\* shutdown: cv_.notify_all() (line 95)
Simple_shutdown_notify ==
  /\ pool = "simple" /\ sd.pc = "notify"
  /\ notify_all
  /\ sd' = [sd EXCEPT !.pc = "join"]
  /\ UNCHANGED <<pool, core_threads_, max_threads_, ctor, is_stop_,
                 active_threads_, tasks_, sub, thrown, accepted, executed, fut,
                 sdCalls, lateSubmit>>

\* shutdown: one iteration of the join loop (lines 98-102); join blocks
\* until the thread has ended
Simple_shutdown_join ==
  /\ pool = "simple" /\ sd.pc = "join" /\ sd.i <= Len(threads_)
  /\ IF threads_[sd.i].joinable
       THEN /\ threads_[sd.i].pc = "done"
            /\ threads_' = [threads_ EXCEPT ![sd.i].joinable = FALSE]
       ELSE UNCHANGED threads_
  /\ sd' = [sd EXCEPT !.i = @ + 1]
  /\ UNCHANGED <<pool, core_threads_, max_threads_, ctor, is_stop_,
                 active_threads_, tasks_, temps, sub, thrown, accepted, executed, fut,
                 sdCalls, lateSubmit>>

\* shutdown: the join loop is over, threads_.clear() and return (line 105)
Simple_shutdown_return ==
  /\ pool = "simple" /\ sd.pc = "join" /\ sd.i > Len(threads_)
  /\ threads_' = <<>>
  /\ sd' = [sd EXCEPT !.pc = "returned"]
  /\ UNCHANGED <<pool, core_threads_, max_threads_, ctor, is_stop_,
                 active_threads_, tasks_, temps, sub, thrown, accepted, executed, fut,
                 sdCalls, lateSubmit>>

Next ==
  \/ DynamicThreadPool_check
  \/ DynamicThreadPool_loop
  \/ \E s \in Submitters : Submit_lock(s)
  \/ \E s \in Submitters : Submit_grow(s)
  \/ \E s \in Submitters : Submit_notify(s)
  \/ \E i \in 1..MaxCore : core_worker_top(i)
  \/ \E i \in 1..MaxCore : core_worker_locked(i)
  \/ \E i \in 1..MaxCore : core_worker_run(i)
  \/ \E i \in 1..MaxSubmits : temp_worker_enter(i)
  \/ \E i \in 1..MaxSubmits : temp_worker_top(i)
  \/ \E i \in 1..MaxSubmits : temp_worker_locked(i)
  \/ \E i \in 1..MaxSubmits : temp_worker_timeout(i)
  \/ \E i \in 1..MaxSubmits : temp_worker_run(i)
  \/ \E i \in 1..MaxSubmits : temp_worker_exit(i)
  \/ spurious_wakeup
  \/ shutdown_set
  \/ shutdown_notify
  \/ shutdown_join
  \/ shutdown_return
  \/ SimpleThreadPool_loop
  \/ \E s \in Submitters : Simple_Submit_lock(s)
  \/ \E s \in Submitters : Simple_Submit_notify(s)
  \/ \E i \in 1..MaxCore : work_locked(i)
  \/ \E i \in 1..MaxCore : work_run(i)
  \/ Simple_shutdown_test
  \/ Simple_shutdown_set
  \/ Simple_shutdown_notify
  \/ Simple_shutdown_join
  \/ Simple_shutdown_return

Spec == Init /\ [][Next]_vars

\* ---- the specification without shutdown, with the scheduler's fairness ----
\* Only the elastic pool, and shutdown is never called.  A started thread
\* that can take a step is eventually scheduled (WF); a client that is
\* inside Submit finishes the call (WF), but nothing forces a new Submit.
\* wait_for waits until an absolute deadline, which elapses however often
\* the thread is unblocked and blocks again in between, hence SF for the
\* timeout.  Spurious wake-ups are possible but never guaranteed.
InitLive == Init /\ pool = "dynamic"

NextLive ==
  \/ DynamicThreadPool_check
  \/ DynamicThreadPool_loop
  \/ \E s \in Submitters : Submit_lock(s)
  \/ \E s \in Submitters : Submit_grow(s)
  \/ \E s \in Submitters : Submit_notify(s)
  \/ \E i \in 1..MaxCore : core_worker_top(i)
  \/ \E i \in 1..MaxCore : core_worker_locked(i)
  \/ \E i \in 1..MaxCore : core_worker_run(i)
  \/ \E i \in 1..MaxSubmits : temp_worker_enter(i)
  \/ \E i \in 1..MaxSubmits : temp_worker_top(i)
  \/ \E i \in 1..MaxSubmits : temp_worker_locked(i)
  \/ \E i \in 1..MaxSubmits : temp_worker_timeout(i)
  \/ \E i \in 1..MaxSubmits : temp_worker_run(i)
  \/ \E i \in 1..MaxSubmits : temp_worker_exit(i)
  \/ spurious_wakeup

FairLive ==
  /\ WF_vars(DynamicThreadPool_check)
  /\ WF_vars(DynamicThreadPool_loop)
  /\ \A s \in Submitters : WF_vars(Submit_grow(s)) /\ WF_vars(Submit_notify(s))
  /\ \A i \in 1..MaxCore :
       /\ WF_vars(core_worker_top(i))
       /\ WF_vars(core_worker_locked(i))
       /\ WF_vars(core_worker_run(i))
  /\ \A i \in 1..MaxSubmits :
       /\ WF_vars(temp_worker_enter(i))
       /\ WF_vars(temp_worker_top(i))
       /\ WF_vars(temp_worker_locked(i))
       /\ SF_vars(temp_worker_timeout(i))
       /\ WF_vars(temp_worker_run(i))
       /\ WF_vars(temp_worker_exit(i))

SpecLive == InitLive /\ [][NextLive]_vars /\ FairLive

\* ---- the whole program, with the scheduler's fairness for shutdown ----
\* Both pools and every operation.  A started core or simple worker that can
\* take a step is eventually scheduled, which includes that a task body
\* terminates, and the thread inside shutdown goes on whenever it can.
\* Nothing is assumed of the clients, of the temporary threads, which
\* shutdown does not join, or of spurious wake-ups.
FairStop ==
  /\ \A i \in 1..MaxCore :
       /\ WF_vars(core_worker_top(i))
       /\ WF_vars(core_worker_locked(i))
       /\ WF_vars(core_worker_run(i))
       /\ WF_vars(work_locked(i))
       /\ WF_vars(work_run(i))
  /\ WF_vars(shutdown_notify)
  /\ WF_vars(shutdown_join)
  /\ WF_vars(shutdown_return)
  /\ WF_vars(Simple_shutdown_set)
  /\ WF_vars(Simple_shutdown_notify)
  /\ WF_vars(Simple_shutdown_join)
  /\ WF_vars(Simple_shutdown_return)

\* shutdown is private in both classes and runs once, from the destructor,
\* when no client is inside Submit and none calls Submit afterwards
NoShutdownYet == sd.pc = "idle" /\ sdCalls = 0
ClientsOutside == \A s \in Submitters : sub[s] = "idle"

NextStop ==
  \/ DynamicThreadPool_check
  \/ DynamicThreadPool_loop
  \/ \E s \in Submitters : NoShutdownYet /\ Submit_lock(s)
  \/ \E s \in Submitters : Submit_grow(s)
  \/ \E s \in Submitters : Submit_notify(s)
  \/ \E i \in 1..MaxCore : core_worker_top(i)
  \/ \E i \in 1..MaxCore : core_worker_locked(i)
  \/ \E i \in 1..MaxCore : core_worker_run(i)
  \/ \E i \in 1..MaxSubmits : temp_worker_enter(i)
  \/ \E i \in 1..MaxSubmits : temp_worker_top(i)
  \/ \E i \in 1..MaxSubmits : temp_worker_locked(i)
  \/ \E i \in 1..MaxSubmits : temp_worker_timeout(i)
  \/ \E i \in 1..MaxSubmits : temp_worker_run(i)
  \/ \E i \in 1..MaxSubmits : temp_worker_exit(i)
  \/ spurious_wakeup
  \/ NoShutdownYet /\ ClientsOutside /\ shutdown_set
  \/ shutdown_notify
  \/ shutdown_join
  \/ shutdown_return
  \/ SimpleThreadPool_loop
  \/ \E s \in Submitters : NoShutdownYet /\ Simple_Submit_lock(s)
  \/ \E s \in Submitters : Simple_Submit_notify(s)
  \/ \E i \in 1..MaxCore : work_locked(i)
  \/ \E i \in 1..MaxCore : work_run(i)
  \/ NoShutdownYet /\ ClientsOutside /\ Simple_shutdown_test
  \/ Simple_shutdown_set
  \/ Simple_shutdown_notify
  \/ Simple_shutdown_join
  \/ Simple_shutdown_return

SpecStop == Init /\ [][NextStop]_vars /\ FairStop

\* ======================= properties =======================

\* worker loops that have been started and have not ended
AliveCore == Cardinality({i \in DOMAIN threads_ : threads_[i].pc # "done"})
AliveTemp == Cardinality({i \in DOMAIN temps : temps[i].pc # "done"})
AllEnded(ts) == \A i \in DOMAIN ts : ts[i].pc = "done"

\* where a task is
QueuePlaces(t) == Cardinality({k \in DOMAIN tasks_ : tasks_[k] = t})
Holders(t) == Cardinality({i \in DOMAIN threads_ : threads_[i].task = t})
              + Cardinality({i \in DOMAIN temps : temps[i].task = t})
InQueue(t) == QueuePlaces(t) > 0
AllExecuted == \A t \in 1..accepted : executed[t] = 1

\* C1: in the elastic pool the active counter never exceeds max_threads
\* (stated for constructed pools; violated by the code).
C1_ActiveAtMostMax ==
  (pool = "dynamic" /\ ctor = "returned") => active_threads_ <= max_threads_

\* C2: in the elastic pool, when shutdown has returned, no Submit overlapped
\* or followed it and all workers have exited, every accepted task has been
\* executed and the queue is empty.  Stated here for pools with at least one
\* core worker, a case of the claim (violated by the code).
C2_ShutdownDrainsQueue ==
  (/\ pool = "dynamic" /\ core_threads_ >= 1
   /\ sd.pc = "returned" /\ ~lateSubmit
   /\ AllEnded(threads_) /\ AllEnded(temps))
  => (tasks_ = <<>> /\ AllExecuted)

\* C3: in the fixed pool, when shutdown has returned every accepted task has
\* been executed and the queue is empty, the consequence the claim draws from
\* the exit condition of work() (violated by the code: a pool of no workers).
C3_SimpleDrainedAfterShutdown ==
  (pool = "simple" /\ sd.pc = "returned") => (tasks_ = <<>> /\ AllExecuted)

\* The part of C3 that the code keeps: a worker of the fixed pool leaves its
\* loop only when is_stop_ is true and the queue is empty, and the queue is
\* drained after shutdown whenever the pool has at least one worker.
SimpleExitOnlyWhenStoppedAndEmpty ==
  [][pool = "simple" =>
       \A i \in DOMAIN threads_ :
         (i \in DOMAIN threads_' /\ threads_[i].pc # "done"
            /\ threads_'[i].pc = "done")
         => (is_stop_ /\ tasks_ = <<>>)]_vars

SimpleDrainedWithWorkers ==
  (pool = "simple" /\ core_threads_ >= 1 /\ sd.pc = "returned")
  => (tasks_ = <<>> /\ AllExecuted)

\* C4: in the elastic pool, when shutdown has returned every worker loop ever
\* started, core or overflow, has terminated (violated by the code).
C4_AllWorkersEndedAfterShutdown ==
  (pool = "dynamic" /\ sd.pc = "returned")
  => (AllEnded(threads_) /\ AllEnded(temps))

\* C5: in both pools a Submit that finds the stop flag set ends with the
\* pool-stopped error and changes nothing else (queue, workers, counter), and
\* every Submit begun after shutdown has returned is such a Submit.
SubmitEntered == accepted' + thrown' = accepted + thrown + 1
C5_RejectedSubmitHasNoEffect ==
  [][(SubmitEntered /\ (is_stop_ \/ sd.pc = "returned"))
       => /\ thrown' = thrown + 1
          /\ UNCHANGED <<tasks_, accepted, sub, threads_, temps,
                         active_threads_, is_stop_, executed>>]_vars

C5_Witness ==
  /\ sd.pc = "returned"
  /\ thrown > 0

\* C6: right after the elastic pool's constructor has returned, before any
\* Submit, the active counter equals core_threads.
C6_ActiveIsCoreAfterConstruction ==
  (pool = "dynamic" /\ ctor = "returned" /\ accepted + thrown = 0)
  => active_threads_ = core_threads_

C6_Witness ==
  /\ pool = "dynamic" /\ ctor = "returned" /\ accepted + thrown = 0
  /\ core_threads_ = MaxCore /\ Len(threads_) = core_threads_
  /\ active_threads_ = core_threads_

\* C7: in the elastic pool without shutdown, once no more Submit is made,
\* eventually every overflow worker has left its loop and the active counter
\* equals core_threads, and it stays so.
C7_BackToCore ==
  <>[](AllEnded(temps) /\ active_threads_ = core_threads_)

C7_Witness ==
  /\ Len(temps) = MaxSubmits /\ AllEnded(temps)
  /\ active_threads_ = core_threads_
  /\ AllExecuted /\ accepted = MaxSubmits

\* C8: in both pools tasks leave the queue in the order they entered it:
\* a later task is out of the queue only if every earlier one is.
C8_FifoDequeue ==
  \A a \in 1..accepted : \A b \in 1..accepted :
    (a < b /\ ~InQueue(b)) => ~InQueue(a)

C8_Witness ==
  /\ accepted >= 2
  /\ executed[1] = 1
  /\ Holders(2) = 1

\* C9: in both pools every accepted task is in exactly one place: once in the
\* queue, or held by exactly one worker, or executed exactly once; a task not
\* yet accepted is nowhere.
C9_TaskExactlyOnce ==
  \A t \in TaskIds :
    QueuePlaces(t) + Holders(t) + executed[t] = (IF t <= accepted THEN 1 ELSE 0)

C9_Witness ==
  /\ accepted >= 2
  /\ Holders(1) = 1 /\ Holders(2) = 1

\* C10: in the elastic pool the active counter equals the number of worker
\* loops alive (stated for constructed pools; violated by the code).
C10_ActiveIsAlive ==
  (pool = "dynamic" /\ ctor = "returned")
  => active_threads_ = AliveCore + AliveTemp

\* C11: in the elastic pool the active counter is never below core_threads
\* (and so never below 0): every decrement follows its own increment.
C11_ActiveAtLeastCore ==
  pool = "dynamic" => active_threads_ >= core_threads_

C11_Witness ==
  /\ pool = "dynamic"
  /\ \E i \in DOMAIN temps : temps[i].pc = "done"
  /\ \E i \in DOMAIN temps : temps[i].pc = "exiting"
  /\ active_threads_ >= core_threads_

\* C13: the elastic pool's constructor throws exactly when core_threads >
\* max_threads, and when it throws no worker thread has been started.
C13_InvalidConfigurationRejected ==
  /\ (pool = "dynamic" /\ ctor = "threw")
       => (core_threads_ > max_threads_ /\ threads_ = <<>> /\ temps = <<>>)
  /\ (pool = "dynamic" /\ core_threads_ > max_threads_)
       => (ctor \in {"body", "threw"} /\ threads_ = <<>>)

C13_Witness ==
  pool = "dynamic" /\ ctor = "threw" /\ core_threads_ > max_threads_

\* C14: every elastic pool whose construction succeeded has
\* 0 < core_threads <= max_threads (violated by the code: core_threads = 0).
C14_ConstructedPoolHasWorkers ==
  (pool = "dynamic" /\ ctor = "returned")
  => (0 < core_threads_ /\ core_threads_ <= max_threads_)

\* C15: in the elastic pool a core worker leaves its loop only when is_stop_
\* is true; an overflow worker leaves its loop only when is_stop_ is true or
\* its wait timed out with the queue empty; so no worker leaves while the
\* pool is not stopping and a task is queued.
CoreLeaves(i) ==
  /\ i \in DOMAIN threads_ /\ threads_[i].pc # "done"
  /\ threads_'[i].pc = "done"
TempLeaves(i) ==
  /\ i \in DOMAIN temps /\ temps[i].pc \notin {"exiting", "done"}
  /\ temps'[i].pc = "exiting"
C15_ExitOnlyWhenStoppedOrIdle ==
  [][pool = "dynamic" =>
       /\ \A i \in 1..MaxCore : CoreLeaves(i) => is_stop_
       /\ \A i \in 1..MaxSubmits :
            TempLeaves(i) => (is_stop_ \/ (temps[i].pc = "wait" /\ tasks_ = <<>>))
       /\ \A i \in 1..MaxCore : CoreLeaves(i) => ~(~is_stop_ /\ tasks_ # <<>>)
       /\ \A i \in 1..MaxSubmits : TempLeaves(i) => ~(~is_stop_ /\ tasks_ # <<>>)]_vars

C15_Witness ==
  /\ pool = "dynamic" /\ ~is_stop_
  /\ \E i \in DOMAIN temps : temps[i].pc = "exiting"

\* C16: a Submit of the elastic pool starts an overflow worker only when the
\* queue is backlogged, that is when it holds more tasks than there are idle
\* (waiting) workers (violated by the code).
IdleWorkers == Cardinality(Waiters)
C16_GrowOnlyWhenBacklogged ==
  [][(pool = "dynamic" /\ Len(temps') > Len(temps))
       => Len(tasks_) > IdleWorkers]_vars

\* C12: in both pools every step of a shutdown call made after the first one
\* has returned leaves the stop flag, the queue, the worker roster (no second
\* join) and the active counter as they are, and the call raises no error.
LaterShutdownStep == sdCalls' >= 2 /\ (sd' # sd \/ sdCalls' # sdCalls)
C12_SecondShutdownIsNoOp ==
  [][LaterShutdownStep =>
       /\ UNCHANGED <<is_stop_, tasks_, threads_, temps, active_threads_>>
       /\ sd'.pc # "threw"]_vars

C12_Witness ==
  /\ pool = "dynamic" /\ Len(threads_) >= 1
  /\ sdCalls = 2 /\ sd.pc = "returned"

\* C19: in the elastic pool with at least one core thread and without
\* shutdown, every accepted task is eventually dequeued and executed.  The
\* number of Submit calls is bounded and a task once executed stays executed,
\* so this is: from some point on, all accepted tasks have been executed.
C19_AcceptedTaskIsExecuted ==
  <>[](core_threads_ >= 1 => (tasks_ = <<>> /\ AllExecuted))

C19_Witness ==
  /\ core_threads_ >= 1 /\ accepted = MaxSubmits /\ AllExecuted
  /\ \E i \in DOMAIN threads_ : threads_[i].pc = "wait"
  /\ \E i \in DOMAIN temps : temps[i].pc = "done"

\* C20: in the elastic pool, each worker (core or temporary) dequeues at most
\* one task after the stop flag has been set.
C20_AtMostOneTaskAfterStop ==
  pool = "dynamic" =>
    /\ \A i \in DOMAIN threads_ : threads_[i].late <= 1
    /\ \A i \in DOMAIN temps : temps[i].late <= 1

\* a core thread and a temporary thread have each dequeued a task after the
\* stop flag was set; the core thread is back at its loop head
C20_Witness ==
  /\ pool = "dynamic" /\ is_stop_
  /\ \E i \in DOMAIN threads_ : threads_[i].pc = "top" /\ threads_[i].late = 1
  /\ \E i \in DOMAIN temps : temps[i].late = 1

\* the position a worker returns to after task(): the loop head
LoopHead == IF pool = "dynamic" THEN "top" ELSE "acquire"

\* worker i of the thread list ts finishes, in this step, a task whose body throws
RunsFailing(ts, i) ==
  /\ i \in DOMAIN ts /\ ts[i].pc = "run" /\ Throws(ts[i].task)
  /\ executed'[ts[i].task] # executed[ts[i].task]

\* C17: in both pools, when a task body fails, the worker that ran it does
\* not end but returns to its loop head holding nothing, active_threads_ is
\* unchanged, and the failure is stored in that task's future.
C17_TaskFailureKeepsWorker ==
  [][/\ \A i \in DOMAIN threads_ :
          RunsFailing(threads_, i) =>
            /\ threads_'[i] = [threads_[i] EXCEPT !.pc = LoopHead, !.task = 0]
            /\ active_threads_' = active_threads_
            /\ fut'[threads_[i].task] = "exception"
     /\ \A i \in DOMAIN temps :
          RunsFailing(temps, i) =>
            /\ temps'[i] = [temps[i] EXCEPT !.pc = LoopHead, !.task = 0]
            /\ active_threads_' = active_threads_
            /\ fut'[temps[i].task] = "exception"]_vars

\* the only worker of a pool ran task 1, whose body throws, and has since
\* dequeued task 2
C17_Witness ==
  /\ Len(threads_) = 1 /\ temps = <<>>
  /\ fut[1] = "exception"
  /\ threads_[1].pc = "run" /\ threads_[1].task = 2

\* C18: in both pools, with task bodies that terminate, a shutdown call that
\* has begun eventually returns.
C18_ShutdownReturns ==
  (sd.pc \notin {"idle", "returned"}) ~> (sd.pc = "returned")

\* shutdown of an elastic pool has returned after joining all its core
\* threads, and a task had been accepted
C18_Witness ==
  /\ pool = "dynamic" /\ sd.pc = "returned" /\ accepted >= 1
  /\ Len(threads_) = MaxCore
  /\ \A i \in DOMAIN threads_ : ~threads_[i].joinable

====
